---- MODULE Spec2Model ----
(***************************************************************************)
(* A model of mixminion's directory-based queue, lib/mixminion/Queue.py:   *)
(* the base Queue (files inp_H / msg_H / rmv_H in one directory, a cached  *)
(* entry count, the .cleaning sentinel and the background eraser), the     *)
(* DeliveryQueue and the MixQueue built on it.                             *)
(***************************************************************************)
EXTENDS Integers, Sequences, FiniteSets, TLC

(***************************************************************************)
(* Bounds of the model.                                                    *)
(***************************************************************************)
NumHandles == 2
MaxPick == 4
MaxPool == 10
MaxRetries == 1
MaxTick == 1
NumProcs == 2

(***************************************************************************)
(* Program constants.                                                      *)
(***************************************************************************)
INPUT_TIMEOUT == 600
CLEAN_TIMEOUT == 60
MIN_POOL_SIZE == 5
\* MAX_REPLACEMENT_RATE = 0.3, in tenths.
MAX_REPLACEMENT_TENTHS == 3

\* os.stat raising OSError (no such file): the sentinel has no mtime.
NoFile == -1

VARIABLES
    dir,        \* the queue directory: file name <<tag, handle>> -> file
    cleaning,   \* mtime of the .cleaning sentinel, NoFile when absent
    n_entries,  \* Queue.n_entries, the cached count (<0: not counted yet)
    clock,      \* index of the current time, time.time() = TimeOf(clock)
    erasers,    \* the forked _secureDelete_bg children still running
    cwdIsDir,   \* is the process's working directory the queue directory?
    collided,   \* history: has __newHandle repeated a handle that names a
                \* msg_ or rmv_ file?
    lsorder,    \* the order in which os.listdir enumerates the handles
    sendableAt, \* DeliveryQueue.sendableAt: sequence of <<time, handle>>
    pending,    \* DeliveryQueue.pending: the handles being sent
    cq,         \* per process: where its cleanQueue call stands
    dest,       \* a second Queue object, the destination of moveMessage
    mv,         \* where the moveMessage call stands
    ret         \* the last call: its name, arguments, exception, return value

vars == <<dir, cleaning, n_entries, clock, erasers, cwdIsDir, collided,
          lsorder, sendableAt, pending, cq, dest, mv, ret>>

\* The calls followed step by step.
stepwise == <<cq, dest, mv>>

\* What the base Queue's methods leave alone.
others == <<lsorder, sendableAt, pending, stepwise>>

Handles == 1..NumHandles
Bytes == {1}
Tags == {"inp", "msg", "rmv"}

\* The byte strings a caller writes: nothing, or one byte.
Contents == {<<>>} \cup {<<b>> : b \in Bytes}

Min(a, b) == IF a <= b THEN a ELSE b
Max(a, b) == IF a >= b THEN a ELSE b

(***************************************************************************)
(* Time.  The clock advances through the instants 0, 601, 661, 1262, ...:  *)
(* a step of INPUT_TIMEOUT + 1 makes every existing inp_ file and the      *)
(* sentinel too old, a step of CLEAN_TIMEOUT puts the sentinel exactly at  *)
(* the limit of its staleness window.                                      *)
(***************************************************************************)
RECURSIVE TimeOf(_)
TimeOf(i) ==
    IF i = 0 THEN 0
    ELSE TimeOf(i - 1) +
         (IF i % 2 = 1 THEN INPUT_TIMEOUT + 1 ELSE CLEAN_TIMEOUT)

Now == TimeOf(clock)

(***************************************************************************)
(* The directory.                                                          *)
(***************************************************************************)
FileName(tag, h) == <<tag, h>>
HasFile(d, tag, h) == FileName(tag, h) \in DOMAIN d
NewFile(t) == [content |-> <<>>, mtime |-> t]

\* What the model keeps of a file under each tag.  Only inp_ files are ever
\* stat'ed (cleanQueue) and only msg_ files are ever read (messageContents,
\* getObject), so the mtime of a file that left inp and the bytes of a file
\* that went to rmv are not kept: no operation can observe them.
Stored(tag, f) ==
    IF tag = "inp" THEN f
    ELSE IF tag = "msg" THEN [content |-> f.content, mtime |-> 0]
    ELSE [content |-> <<>>, mtime |-> 0]

\* os.listdir filtered by a prefix: the handles with a file of this tag.
HandlesOf(d, tag) == {n[2] : n \in {m \in DOMAIN d : m[1] = tag}}

\* os.rename(src, dst): dst is replaced if it exists, src disappears.
RenameLink(d, src, dst) ==
    [n \in DOMAIN d \cup {dst} |->
        IF n = dst THEN Stored(dst[1], d[src]) ELSE d[n]]
Rename(d, src, dst) ==
    [n \in (DOMAIN d \ {src}) \cup {dst} |->
        IF n = dst THEN Stored(dst[1], d[src]) ELSE d[n]]

\* os.unlink of a set of paths; a missing path is skipped.
Unlink(d, paths) == [n \in DOMAIN d \ paths |-> d[n]]

(***************************************************************************)
(* Queue.__changeState                                                     *)
(***************************************************************************)
ChangeStateDir(d, h, s1, s2) == Rename(d, FileName(s1, h), FileName(s2, h))

ChangeStateCountNoTrack(n, s1, s2) == n
ChangeStateCount(n, s1, s2) ==
    IF n < 0 THEN n
    ELSE IF s1 = "msg" /\ s2 # "msg" THEN n - 1
    ELSE IF s1 # "msg" /\ s2 = "msg" THEN n + 1
    ELSE n

\* The cached count is kept bounded: a clobbering commit raises it forever.
MaxEntries == NumHandles + 1

\* The last call.  Of a call that returned: the method, its handle (0 when
\* it takes none) and its return value.  Of a call that raised: the error.
Ret(op, h, exc, val) ==
    IF exc = "ok"
    THEN [op |-> op, h |-> h, exc |-> exc, val |-> val, arg |-> <<>>]
    ELSE [op |-> "raised", h |-> 0, exc |-> exc, val |-> <<>>, arg |-> <<>>]
None == <<>>
\* ret.exc: "ok", or the error raised.  An OSError is recorded by its errno:
\* "EEXIST" from the exclusive create, "ENOENT" from rename, stat or open of
\* a missing file.
Ok == "ok"

\* The processes that call cleanQueue on the directory.
Procs == 1..NumProcs
IdleProc == [pc |-> "idle", rmv |-> {}]

\* A Queue object on an empty directory, and no moveMessage under way.
EmptyQueue == [dir |-> <<>>, n_entries |-> -1]
NoMove == [pc |-> "idle", h |-> 0, s |-> <<>>, nh |-> 0]

\* No call is part-way through.
NoCallInFlight ==
    /\ cq = [p \in Procs |-> IdleProc]
    /\ dest = EmptyQueue
    /\ mv = NoMove

(***************************************************************************)
(* Queue.__init__ (scrub = 0): nothing counted yet.                        *)
(***************************************************************************)
Init ==
    /\ dir = <<>>
    /\ cleaning = NoFile
    /\ n_entries = -1
    /\ clock = 0
    /\ erasers = {}
    /\ cwdIsDir \in BOOLEAN
    /\ collided = FALSE
    /\ lsorder = <<>>
    /\ sendableAt = <<>>
    /\ pending = {}
    /\ NoCallInFlight
    /\ ret = Ret("init", 0, Ok, None)

(***************************************************************************)
(* Queue.openNewMessage: h is the handle __newHandle returned.             *)
(***************************************************************************)
\* The handles __newHandle can return when no generated handle repeats one
\* that names a committed or removed message.
NoClobber(h) == ~HasFile(dir, "msg", h) /\ ~HasFile(dir, "rmv", h)

ExclusiveCreateOverwrites(d, h) == FALSE
ExclusiveCreateFails(d, h) == HasFile(d, "inp", h)

OpenNewMessage(h) ==
    /\ IF ExclusiveCreateFails(dir, h)
       THEN /\ ret' = Ret("openNewMessage", h, "EEXIST", None)
            /\ UNCHANGED <<dir, collided>>
       ELSE /\ dir' = [n \in DOMAIN dir \cup {FileName("inp", h)} |->
                          IF n = FileName("inp", h) THEN NewFile(Now) ELSE dir[n]]
            /\ collided' = (collided \/ ~NoClobber(h))
            /\ ret' = Ret("openNewMessage", h, Ok, h)
    /\ UNCHANGED <<cleaning, n_entries, clock, erasers, cwdIsDir, others>>

\* f.write(b) on the file returned by openNewMessage for h, once.
WriteMessage(h, b) ==
    /\ HasFile(dir, "inp", h)
    /\ dir[FileName("inp", h)].content = <<>>
    /\ dir' = [dir EXCEPT ![FileName("inp", h)] =
                  [content |-> Append(@.content, b), mtime |-> Now]]
    /\ ret' = Ret("write", 0, Ok, None)
    /\ UNCHANGED <<cleaning, n_entries, clock, erasers, cwdIsDir, collided, others>>

\* A call of __changeState(h, s1, s2) as the whole body of a method `op`.
ChangeStateCall(op, h, s1, s2) ==
    /\ IF HasFile(dir, s1, h)
       THEN /\ ChangeStateCount(n_entries, s1, s2) <= MaxEntries
            /\ dir' = ChangeStateDir(dir, h, s1, s2)
            /\ n_entries' = ChangeStateCount(n_entries, s1, s2)
            /\ ret' = Ret(op, h, Ok, None)
       ELSE /\ ret' = Ret(op, h, "ENOENT", None)
            /\ UNCHANGED <<dir, n_entries>>
    /\ UNCHANGED <<cleaning, clock, erasers, cwdIsDir, collided, others>>

FinishMessage(h) == ChangeStateCall("finishMessage", h, "inp", "msg")
AbortMessage(h) == ChangeStateCall("abortMessage", h, "inp", "rmv")
RemoveMessage(h) == ChangeStateCall("removeMessage", h, "msg", "rmv")

(***************************************************************************)
(* Queue.queueMessage: openNewMessage, f.write(contents), finishMessage.   *)
(***************************************************************************)
QueueMessage(h, c) ==
    /\ IF ExclusiveCreateFails(dir, h)
       THEN /\ ret' = Ret("queueMessage", h, "EEXIST", None)
            /\ UNCHANGED <<dir, n_entries, collided>>
       ELSE /\ ChangeStateCount(n_entries, "inp", "msg") <= MaxEntries
            /\ dir' = ChangeStateDir(
                          [n \in DOMAIN dir \cup {FileName("inp", h)} |->
                              IF n = FileName("inp", h)
                              THEN [content |-> c, mtime |-> Now] ELSE dir[n]],
                          h, "inp", "msg")
            /\ n_entries' = ChangeStateCount(n_entries, "inp", "msg")
            /\ collided' = (collided \/ ~NoClobber(h))
            /\ ret' = Ret("queueMessage", h, Ok, h)
    /\ UNCHANGED <<cleaning, clock, erasers, cwdIsDir, others>>

(***************************************************************************)
(* Queue.count, Queue.getAllMessages, Queue.messageContents                *)
(***************************************************************************)
GetAllMessagesAnyTag(d) == {n[2] : n \in DOMAIN d}
GetAllMessages(d) == HandlesOf(d, "msg")

CountResult(n, d, recount) ==
    IF n >= 0 /\ ~recount THEN n ELSE Cardinality(GetAllMessages(d))

Count(recount) ==
    /\ n_entries' = CountResult(n_entries, dir, recount)
    /\ ret' = Ret("count", 0, Ok, n_entries')
    /\ UNCHANGED <<dir, cleaning, clock, erasers, cwdIsDir, collided, others>>

\* open(msg_h).read(): the bytes, or IOError when there is no msg_h.
NotFound == <<-1>>
MessageContents(d, h) ==
    IF HasFile(d, "msg", h) THEN d[FileName("msg", h)].content ELSE NotFound

(***************************************************************************)
(* Queue.cleanQueue                                                        *)
(***************************************************************************)
\* Lines 228-234: the value of `cleaning` after the try block.  The
\* assignment of line 232 is not in an else branch: it follows the if.
CleaningFlagIgnoresSentinel(st, now) == 0
CleaningFlag(st, now) ==
    IF st = NoFile THEN 0
    ELSE LET afterIf == IF now - st > CLEAN_TIMEOUT THEN 0 ELSE -1
         IN  1

\* Lines 239-254 on directory d at time now.
StaleInputs(d, now) ==
    {h \in HandlesOf(d, "inp") : d[FileName("inp", h)].mtime < now - INPUT_TIMEOUT}

RECURSIVE DemoteAll(_, _)
DemoteAll(d, hs) ==
    IF hs = {} THEN d
    ELSE LET h == CHOOSE x \in hs : TRUE
         IN  DemoteAll(ChangeStateDir(d, h, "inp", "rmv"), hs \ {h})

\* The list handed to _secureDelete_bg: the rmv_ paths of the listing and,
\* for each demoted file, the path it was listed under (line 252).
EraseBatchEveryFile(d, now) == DOMAIN d
EraseBatch(d, now) ==
    {FileName("rmv", h) : h \in HandlesOf(d, "rmv")}
        \cup {FileName("inp", h) : h \in StaleInputs(d, now)}

\* os.stat(m) of line 249 is given the bare file name: it finds the file
\* only when the working directory is the queue directory.
StatRaises(d, cwd) == HandlesOf(d, "inp") # {} /\ ~cwd

CleanPass(d, cl, er, now, cwd) ==
    IF CleaningFlag(cl, now) = 1
    THEN [dir |-> d, cleaning |-> cl, erasers |-> er, exc |-> Ok, val |-> 1]
    ELSE IF StatRaises(d, cwd)
    THEN [dir |-> d, cleaning |-> now, erasers |-> er, exc |-> "ENOENT", val |-> None]
    ELSE [dir |-> DemoteAll(d, StaleInputs(d, now)),
          cleaning |-> now,
          erasers |-> er \cup {EraseBatch(d, now)},
          exc |-> Ok, val |-> 0]

CleanQueue ==
    LET r == CleanPass(dir, cleaning, erasers, Now, cwdIsDir)
    IN  /\ dir' = r.dir
        /\ cleaning' = r.cleaning
        /\ erasers' = r.erasers
        /\ ret' = Ret("cleanQueue", 0, r.exc, r.val)
        /\ UNCHANGED <<n_entries, clock, cwdIsDir, collided, others>>

(***************************************************************************)
(* Queue.removeAll                                                         *)
(***************************************************************************)
RECURSIVE RemoveAllDir(_, _)
RemoveAllDir(d, names) ==
    IF names = {} THEN d
    ELSE LET m == CHOOSE x \in names : TRUE
         IN  RemoveAllDir(ChangeStateDir(d, m[2], m[1], "rmv"), names \ {m})

RemoveAll ==
    LET d1 == RemoveAllDir(dir, {m \in DOMAIN dir : m[1] \in {"inp", "msg"}})
        r == CleanPass(d1, cleaning, erasers, Now, cwdIsDir)
    IN  /\ dir' = r.dir
        /\ n_entries' = 0
        /\ cleaning' = r.cleaning
        /\ erasers' = r.erasers
        /\ ret' = Ret("removeAll", 0, r.exc, None)
        /\ UNCHANGED <<clock, cwdIsDir, collided, others>>

(***************************************************************************)
(* _secureDelete_bg: the forked child.  secureDelete unlinks the files of  *)
(* the batch, or raises OSError (which the child swallows); then the child *)
(* unlinks the sentinel and exits.                                         *)
(***************************************************************************)
SecureDelete(d, files, ok) == IF ok THEN Unlink(d, files) ELSE d

EraserRun(b, ok) ==
    /\ b \in erasers
    /\ dir' = SecureDelete(dir, b, ok)
    /\ cleaning' = NoFile
    /\ erasers' = erasers \ {b}
    /\ ret' = Ret("eraser", 0, Ok, None)
    /\ UNCHANGED <<n_entries, clock, cwdIsDir, collided, others>>

Tick ==
    /\ clock < MaxTick
    /\ clock' = clock + 1
    /\ ret' = Ret("tick", 0, Ok, None)
    /\ UNCHANGED <<dir, cleaning, n_entries, erasers, cwdIsDir, collided, others>>

\* A behaviour is followed up to, and including, its first handle collision.
Live == ~collided

Next ==
    \/ \E h \in Handles : Live /\ OpenNewMessage(h)
    \/ \E h \in Handles, b \in Bytes : Live /\ WriteMessage(h, b)
    \/ \E h \in Handles : Live /\ FinishMessage(h)
    \/ \E h \in Handles : Live /\ AbortMessage(h)
    \/ \E h \in Handles, c \in Contents : Live /\ QueueMessage(h, c)
    \/ \E h \in Handles : Live /\ RemoveMessage(h)
    \/ \E recount \in BOOLEAN : Live /\ Count(recount)
    \/ Live /\ RemoveAll
    \/ Live /\ CleanQueue
    \/ \E b \in erasers, ok \in BOOLEAN : Live /\ EraserRun(b, ok)
    \/ Live /\ Tick

Spec == Init /\ [][Next]_vars

NextFresh ==
    \/ \E h \in Handles : NoClobber(h) /\ OpenNewMessage(h)
    \/ \E h \in Handles, b \in Bytes : WriteMessage(h, b)
    \/ \E h \in Handles : FinishMessage(h)
    \/ \E h \in Handles : AbortMessage(h)
    \/ \E h \in Handles, c \in Contents : NoClobber(h) /\ QueueMessage(h, c)
    \/ \E h \in Handles : RemoveMessage(h)
    \/ \E recount \in BOOLEAN : Count(recount)
    \/ RemoveAll
    \/ CleanQueue
    \/ \E b \in erasers, ok \in BOOLEAN : EraserRun(b, ok)
    \/ Tick

SpecFresh == Init /\ [][NextFresh]_vars

(***************************************************************************)
(* cleanQueue called by several processes on one directory.  A call is     *)
(* followed through its steps: the stat of the sentinel (lines 228-237),   *)
(* the write of the sentinel (lines 239-241), the scan of the directory    *)
(* (lines 243-252) and the fork of the eraser (line 253).                  *)
(***************************************************************************)
CqStat(p) ==
    /\ cq[p].pc = "idle"
    /\ IF CleaningFlag(cleaning, Now) = 1
       THEN /\ ret' = Ret("cleanQueue", p, Ok, 1)
            /\ UNCHANGED cq
       ELSE /\ cq' = [cq EXCEPT ![p].pc = "write"]
            /\ ret' = Ret("stat", p, Ok, None)
    /\ UNCHANGED <<dir, cleaning, n_entries, clock, erasers, cwdIsDir, collided,
                   lsorder, sendableAt, pending, dest, mv>>

CqWrite(p) ==
    /\ cq[p].pc = "write"
    /\ cleaning' = Now
    /\ cq' = [cq EXCEPT ![p].pc = "scan"]
    /\ ret' = Ret("write", p, Ok, None)
    /\ UNCHANGED <<dir, n_entries, clock, erasers, cwdIsDir, collided,
                   lsorder, sendableAt, pending, dest, mv>>

CqScan(p) ==
    /\ cq[p].pc = "scan"
    /\ IF StatRaises(dir, cwdIsDir)
       THEN /\ cq' = [cq EXCEPT ![p] = IdleProc]
            /\ ret' = Ret("cleanQueue", p, "ENOENT", None)
            /\ UNCHANGED dir
       ELSE /\ dir' = DemoteAll(dir, StaleInputs(dir, Now))
            /\ cq' = [cq EXCEPT ![p] = [pc |-> "fork", rmv |-> EraseBatch(dir, Now)]]
            /\ ret' = Ret("scan", p, Ok, None)
    /\ UNCHANGED <<cleaning, n_entries, clock, erasers, cwdIsDir, collided,
                   lsorder, sendableAt, pending, dest, mv>>

\* Children forked with the same batch are one element of erasers: they
\* unlink the same paths.
CqFork(p) ==
    /\ cq[p].pc = "fork"
    /\ erasers' = erasers \cup {cq[p].rmv}
    /\ cq' = [cq EXCEPT ![p] = IdleProc]
    /\ ret' = Ret("cleanQueue", p, Ok, 0)
    /\ UNCHANGED <<dir, cleaning, n_entries, clock, cwdIsDir, collided,
                   lsorder, sendableAt, pending, dest, mv>>

\* A directory of abandoned inp_ files and removed messages, as the
\* processes find it.
InitClean ==
    /\ \E tag \in [Handles -> {"inp", "rmv", "none"}] :
          dir = [f \in {FileName(tag[h], h) : h \in {x \in Handles : tag[x] # "none"}} |->
                    Stored(f[1], NewFile(0))]
    /\ cleaning = NoFile
    /\ n_entries = -1
    /\ clock = 0
    /\ erasers = {}
    /\ cwdIsDir \in BOOLEAN
    /\ collided = FALSE
    /\ lsorder = <<>>
    /\ sendableAt = <<>>
    /\ pending = {}
    /\ NoCallInFlight
    /\ ret = Ret("init", 0, Ok, None)

NextClean ==
    \/ \E p \in Procs : CqStat(p)
    \/ \E p \in Procs : CqWrite(p)
    \/ \E p \in Procs : CqScan(p)
    \/ \E p \in Procs : CqFork(p)
    \/ \E b \in erasers, ok \in BOOLEAN : EraserRun(b, ok)
    \/ Tick

SpecClean == InitClean /\ [][NextClean]_vars

(***************************************************************************)
(* Queue.moveMessage(handle, queue), lines 174-176, step by step: the      *)
(* source queue is (dir, n_entries), the destination the Queue object      *)
(* dest.  self.messageContents(handle); queue.queueMessage(contents), that *)
(* is openNewMessage, f.write, finishMessage on dest; then                 *)
(* self.removeMessage(handle).  The process may die between any two steps. *)
(***************************************************************************)
\* The bytes handed to queue.queueMessage.
MvWrittenNothing(s) == <<>>
MvWritten(s) == s

\* self.messageContents(h): IOError when there is no msg_h.
MvRead(h) ==
    /\ mv.pc = "idle"
    /\ IF HasFile(dir, "msg", h)
       THEN /\ mv' = [pc |-> "create", h |-> h, s |-> MessageContents(dir, h), nh |-> 0]
            /\ ret' = Ret("messageContents", h, Ok, None)
       ELSE /\ ret' = Ret("moveMessage", h, "ENOENT", None)
            /\ UNCHANGED mv
    /\ UNCHANGED <<dir, cleaning, n_entries, clock, erasers, cwdIsDir, collided,
                   lsorder, sendableAt, pending, cq, dest>>

\* queue.openNewMessage(), nh the handle queue.__newHandle returned.
MvCreate(nh) ==
    /\ mv.pc = "create"
    /\ IF ExclusiveCreateFails(dest.dir, nh)
       THEN /\ mv' = NoMove
            /\ ret' = Ret("moveMessage", mv.h, "EEXIST", None)
            /\ UNCHANGED dest
       ELSE /\ dest' = [dest EXCEPT !.dir =
                          [n \in DOMAIN dest.dir \cup {FileName("inp", nh)} |->
                              IF n = FileName("inp", nh) THEN NewFile(Now)
                              ELSE dest.dir[n]]]
            /\ mv' = [mv EXCEPT !.pc = "write", !.nh = nh]
            /\ ret' = Ret("openNewMessage", nh, Ok, nh)
    /\ UNCHANGED <<dir, cleaning, n_entries, clock, erasers, cwdIsDir, collided,
                   lsorder, sendableAt, pending, cq>>

\* f.write(contents)
MvWrite ==
    /\ mv.pc = "write"
    /\ dest' = [dest EXCEPT !.dir[FileName("inp", mv.nh)] =
                   [content |-> MvWritten(mv.s), mtime |-> Now]]
    /\ mv' = [mv EXCEPT !.pc = "finish"]
    /\ ret' = Ret("write", mv.nh, Ok, None)
    /\ UNCHANGED <<dir, cleaning, n_entries, clock, erasers, cwdIsDir, collided,
                   lsorder, sendableAt, pending, cq>>

\* queue.finishMessage(f, nh)
MvFinish ==
    /\ mv.pc = "finish"
    /\ dest' = [dir |-> ChangeStateDir(dest.dir, mv.nh, "inp", "msg"),
                n_entries |-> ChangeStateCount(dest.n_entries, "inp", "msg")]
    /\ mv' = [mv EXCEPT !.pc = "remove"]
    /\ ret' = Ret("finishMessage", mv.nh, Ok, None)
    /\ UNCHANGED <<dir, cleaning, n_entries, clock, erasers, cwdIsDir, collided,
                   lsorder, sendableAt, pending, cq>>

\* self.removeMessage(handle); return newHandle
MvRemove ==
    /\ mv.pc = "remove"
    /\ IF HasFile(dir, "msg", mv.h)
       THEN /\ dir' = ChangeStateDir(dir, mv.h, "msg", "rmv")
            /\ n_entries' = ChangeStateCount(n_entries, "msg", "rmv")
            /\ ret' = Ret("moveMessage", mv.h, Ok, mv.nh)
       ELSE /\ ret' = Ret("moveMessage", mv.h, "ENOENT", None)
            /\ UNCHANGED <<dir, n_entries>>
    /\ mv' = NoMove
    /\ UNCHANGED <<cleaning, clock, erasers, cwdIsDir, collided,
                   lsorder, sendableAt, pending, cq, dest>>

\* The process dies during the call and is started again: the directories
\* stay as they are, the caches are lost.
MvCrash ==
    /\ mv.pc # "idle"
    /\ mv' = NoMove
    /\ n_entries' = -1
    /\ dest' = [dest EXCEPT !.n_entries = -1]
    /\ ret' = Ret("crash", 0, Ok, None)
    /\ UNCHANGED <<dir, cleaning, clock, erasers, cwdIsDir, collided,
                   lsorder, sendableAt, pending, cq>>

\* Two queues holding committed messages, counted or not.
InitMove ==
    /\ \E c \in [Handles -> Contents \cup {NotFound}] :
          /\ dir = [f \in {FileName("msg", h) : h \in {x \in Handles : c[x] # NotFound}} |->
                       [content |-> c[f[2]], mtime |-> 0]]
          /\ n_entries \in {-1, Cardinality({x \in Handles : c[x] # NotFound})}
    /\ \E c \in [Handles -> Contents \cup {NotFound}] :
          dest \in {[dir |-> [f \in {FileName("msg", h) :
                                        h \in {x \in Handles : c[x] # NotFound}} |->
                                 [content |-> c[f[2]], mtime |-> 0]],
                     n_entries |-> k] :
                       k \in {-1, Cardinality({x \in Handles : c[x] # NotFound})}}
    /\ cleaning = NoFile
    /\ clock = 0
    /\ erasers = {}
    /\ cwdIsDir = TRUE
    /\ collided = FALSE
    /\ lsorder = <<>>
    /\ sendableAt = <<>>
    /\ pending = {}
    /\ cq = [p \in Procs |-> IdleProc]
    /\ mv = NoMove
    /\ ret = Ret("init", 0, Ok, None)

\* The destination's __newHandle repeats no committed or removed handle.
NextMove ==
    \/ \E h \in Handles : MvRead(h)
    \/ \E nh \in Handles :
          /\ ~HasFile(dest.dir, "msg", nh)
          /\ ~HasFile(dest.dir, "rmv", nh)
          /\ MvCreate(nh)
    \/ MvWrite
    \/ MvFinish
    \/ MvRemove
    \/ MvCrash

SpecMove == InitMove /\ [][NextMove]_vars

(***************************************************************************)
(* Queue.pickRandom                                                        *)
(***************************************************************************)
Range(q) == {q[i] : i \in 1..Len(q)}
Distinct(q) == \A i, j \in 1..Len(q) : i # j => q[i] # q[j]

\* The permutations of a set, as sequences.
Orders(S) ==
    {q \in [1..Cardinality(S) -> S] : \A i, j \in 1..Cardinality(S) : i # j => q[i] # q[j]}

\* Line 132: the msg_ entries of os.listdir, in enumeration order.
RECURSIVE Filter(_, _)
Filter(q, S) ==
    IF q = <<>> THEN <<>>
    ELSE (IF Head(q) \in S THEN <<Head(q)>> ELSE <<>>) \o Filter(Tail(q), S)
Messages(d, ord) == Filter(ord, HandlesOf(d, "msg"))

\* rng.getInt(bound): an integer of 0 .. bound-1.
GetInt(bound) == 0..(bound - 1)

\* Lines 144-146, on 0-based positions i and swap.
SwapAtNoTemp(m, i, swap) == [m EXCEPT ![i + 1] = m[swap + 1], ![swap + 1] = m[swap + 1]]
SwapAt(m, i, swap) == [m EXCEPT ![swap + 1] = m[i + 1], ![i + 1] = m[swap + 1]]

\* Lines 142-146: every list the loop can leave, from iteration i on.
RECURSIVE ShuffleOutcomes(_, _, _, _)
ShuffleOutcomes(m, i, count, n) ==
    IF i >= count - 1 THEN {m}
    ELSE UNION {ShuffleOutcomes(SwapAt(m, i, i + r), i + 1, count, n) :
                    r \in GetInt(n - i - 1)}

\* Python's m[:c], also for negative c.
SliceTo(m, c) ==
    IF c >= 0 THEN SubSeq(m, 1, Min(c, Len(m)))
    ELSE SubSeq(m, 1, Max(Len(m) + c, 0))

\* The lists pickRandom(count) can return; count is None or <<k>>.
PickRandomResults(d, ord, countArg) ==
    LET messages == Messages(d, ord)
        n == Len(messages)
        count == IF countArg = None THEN n ELSE Min(countArg[1], n)
    IN  {SliceTo(m, count) : m \in ShuffleOutcomes(messages, 0, count, n)}

PickRandom(countArg) ==
    /\ \E r \in PickRandomResults(dir, lsorder, countArg) :
          ret' = [Ret("pickRandom", 0, Ok, r) EXCEPT !.arg = countArg]
    /\ UNCHANGED <<dir, cleaning, n_entries, clock, erasers, cwdIsDir, collided, others>>

(***************************************************************************)
(* MixQueue.pickMessages                                                   *)
(***************************************************************************)
\* int(n * 0.3): for every n below 100000 the float product truncates to
\* the integer part of 3n/10.
IntOfRate(n) == (n * MAX_REPLACEMENT_TENTHS) \div 10

NTransmit(n) == Min(n - MIN_POOL_SIZE, IntOfRate(n))

PickMessages ==
    LET n == CountResult(n_entries, dir, FALSE)
    IN  /\ n_entries' = n
        /\ \E r \in PickRandomResults(dir, lsorder, <<NTransmit(n)>>) :
              ret' = Ret("pickMessages", 0, Ok, r)
        /\ UNCHANGED <<dir, cleaning, clock, erasers, cwdIsDir, collided, others>>

(***************************************************************************)
(* pickRandom on every directory of up to MaxPick files, each a msg_ or a  *)
(* rmv_ file, under every enumeration order.                               *)
(***************************************************************************)
CountArgs == {None} \cup {<<k>> : k \in 0..(MaxPick + 1)}

InitPick ==
    /\ \E n \in 0..MaxPick : \E tag \in [1..n -> {"msg", "rmv"}] :
          /\ dir = [f \in {FileName(tag[h], h) : h \in 1..n} |->
                       Stored(f[1], NewFile(0))]
          /\ lsorder \in Orders(1..n)
    /\ cleaning = NoFile
    /\ n_entries = -1
    /\ clock = 0
    /\ erasers = {}
    /\ cwdIsDir = TRUE
    /\ collided = FALSE
    /\ sendableAt = <<>>
    /\ pending = {}
    /\ NoCallInFlight
    /\ ret = Ret("init", 0, Ok, None)

NextPick == \E countArg \in CountArgs : PickRandom(countArg)

SpecPick == InitPick /\ [][NextPick]_vars

(***************************************************************************)
(* pickMessages on a pool of up to MaxPool messages.  Only the size of the *)
(* pool decides how many handles come back; the directory is enumerated in *)
(* ascending or in descending order of the handles.                        *)
(***************************************************************************)
InitMix ==
    /\ \E n \in 0..MaxPool :
          /\ dir = [f \in {FileName("msg", h) : h \in 1..n} |->
                       Stored("msg", NewFile(0))]
          /\ lsorder \in {[i \in 1..n |-> i], [i \in 1..n |-> n + 1 - i]}
          /\ n_entries \in {-1, n}
    /\ cleaning = NoFile
    /\ clock = 0
    /\ erasers = {}
    /\ cwdIsDir = TRUE
    /\ collided = FALSE
    /\ sendableAt = <<>>
    /\ pending = {}
    /\ NoCallInFlight
    /\ ret = Ret("init", 0, Ok, None)

NextMix ==
    \/ PickMessages
    \/ \E recount \in BOOLEAN : Count(recount)

SpecMix == InitMix /\ [][NextMix]_vars

(***************************************************************************)
(* DeliveryQueue.  A message is the record <<retries, retryAt, addr, msg>>.*)
(***************************************************************************)
Retries(rec) == rec[1]
RetryAt(rec) == rec[2]
Addr(rec) == rec[3]
Body(rec) == rec[4]

\* The times a caller hands to queueMessage and deliveryFailed.
DQTimes == {TimeOf(i) : i \in 0..MaxTick}
DQRecords(h) == {<<r, t, "addr", h>> : r \in 0..MaxRetries, t \in DQTimes}

SendableHandles(q) == {q[i][2] : i \in 1..Len(q)}
InOrder(q) == \A i, j \in 1..Len(q) : i < j => q[i][1] <= q[j][1]

\* Queue.queueObject as called from DeliveryQueue.queueMessage (line 324):
\* openNewMessage creates inp_<h>, then line 110 reads the undefined name
\* `contents` and raises NameError; the method returns nothing and
\* sendableAt is not touched.
DQQueueMessage(h, retry, retryAt) ==
    /\ IF ExclusiveCreateFails(dir, h)
       THEN /\ ret' = Ret("DQ.queueMessage", h, "EEXIST", None)
            /\ UNCHANGED dir
       ELSE /\ dir' = [n \in DOMAIN dir \cup {FileName("inp", h)} |->
                          IF n = FileName("inp", h) THEN NewFile(Now) ELSE dir[n]]
            /\ ret' = Ret("DQ.queueMessage", h, "NameError", None)
    /\ UNCHANGED <<cleaning, n_entries, clock, erasers, cwdIsDir, collided, others>>

\* DeliveryQueue.nextMessageReadyAt
NextMessageReadyAtLast(q) == IF q # <<>> THEN q[Len(q)][1] ELSE None
NextMessageReadyAtResult(q) == IF q # <<>> THEN q[1][1] ELSE None

NextMessageReadyAt ==
    /\ ret' = Ret("nextMessageReadyAt", 0, Ok, NextMessageReadyAtResult(sendableAt))
    /\ UNCHANGED <<dir, cleaning, n_entries, clock, erasers, cwdIsDir, collided, others>>

\* DeliveryQueue.sendReadyMessages: line 350 reads the name `bisect`, which
\* the module never imports, and raises NameError before anything changes.
SendReadyMessages ==
    /\ ret' = Ret("sendReadyMessages", 0, "NameError", None)
    /\ UNCHANGED <<dir, cleaning, n_entries, clock, erasers, cwdIsDir, collided, others>>

\* DeliveryQueue.deliverySucceeded: removeMessage, then del pending[handle].
DeliverySucceeded(h) ==
    /\ IF ~HasFile(dir, "msg", h)
       THEN /\ ret' = Ret("deliverySucceeded", h, "ENOENT", None)
            /\ UNCHANGED <<dir, n_entries, pending>>
       ELSE /\ dir' = ChangeStateDir(dir, h, "msg", "rmv")
            /\ n_entries' = ChangeStateCount(n_entries, "msg", "rmv")
            /\ IF h \in pending
               THEN /\ pending' = pending \ {h}
                    /\ ret' = Ret("deliverySucceeded", h, Ok, None)
               ELSE /\ ret' = Ret("deliverySucceeded", h, "KeyError", None)
                    /\ UNCHANGED pending
    /\ UNCHANGED <<cleaning, clock, erasers, cwdIsDir, collided, lsorder, sendableAt,
                   stepwise>>

\* DeliveryQueue.deliveryFailed: del pending[handle]; then line 384 reads
\* self.retryAt, an attribute no DeliveryQueue has, and raises
\* AttributeError whatever retryAt is (None or <<T>>).
DeliveryFailed(h, retryAt) ==
    /\ IF h \notin pending
       THEN /\ ret' = Ret("deliveryFailed", h, "KeyError", None)
            /\ UNCHANGED pending
       ELSE /\ pending' = pending \ {h}
            /\ ret' = Ret("deliveryFailed", h, "AttributeError", None)
    /\ UNCHANGED <<dir, cleaning, n_entries, clock, erasers, cwdIsDir, collided,
                   lsorder, sendableAt, stepwise>>

(***************************************************************************)
(* A DeliveryQueue in every state its fields are documented to take        *)
(* (lines 293-300): every msg_ file holds a record and is either in        *)
(* pending or once in sendableAt under its retry time, sendableAt in order.*)
(***************************************************************************)
InitDQ ==
    /\ \E M \in SUBSET Handles : \E P \in SUBSET M :
          /\ \E rec \in [M -> UNION {DQRecords(h) : h \in Handles}] :
                /\ \A h \in M : rec[h] \in DQRecords(h)
                /\ dir = [f \in {FileName("msg", h) : h \in M} |->
                             [content |-> rec[f[2]], mtime |-> 0]]
                /\ \E q \in Orders({<<RetryAt(rec[h]), h>> : h \in M \ P}) :
                      InOrder(q) /\ sendableAt = q
          /\ pending = P
          /\ n_entries \in {-1, Cardinality(M)}
    /\ cleaning = NoFile
    /\ clock = 0
    /\ erasers = {}
    /\ cwdIsDir \in BOOLEAN
    /\ collided = FALSE
    /\ lsorder = <<>>
    /\ NoCallInFlight
    /\ ret = Ret("init", 0, Ok, None)

NextDQ ==
    \/ \E h \in Handles, r \in 0..MaxRetries, t \in DQTimes :
          NoClobber(h) /\ DQQueueMessage(h, r, t)
    \/ NextMessageReadyAt
    \/ SendReadyMessages
    \/ \E h \in Handles : DeliverySucceeded(h)
    \/ \E h \in Handles, retryAt \in {None} \cup {<<t>> : t \in DQTimes} :
          DeliveryFailed(h, retryAt)
    \/ Tick

SpecDQ == InitDQ /\ [][NextDQ]_vars

(***************************************************************************)
(* The DeliveryQueue at one instant, its process in the queue directory:   *)
(* the calls that the schedule (sendableAt, pending) depends on, the       *)
(* transport reporting success or failure of handles it was given.         *)
(***************************************************************************)
InitSched == InitDQ /\ cwdIsDir

NextSched ==
    \/ \E h \in Handles, r \in 0..MaxRetries, t \in DQTimes :
          NoClobber(h) /\ DQQueueMessage(h, r, t)
    \/ NextMessageReadyAt
    \/ SendReadyMessages
    \/ \E h \in pending : DeliverySucceeded(h)
    \/ \E h \in pending, retryAt \in {None} \cup {<<t>> : t \in DQTimes} :
          DeliveryFailed(h, retryAt)

SpecSched == InitSched /\ [][NextSched]_vars

(***************************************************************************)
(* DeliveryQueue.__init__ on the existing directory (a restart; the fields *)
(* of the earlier object are lost with its process).  Queue.__init__ is    *)
(* called with scrub=1 and line 93 calls self.cleanQueue(1), but           *)
(* cleanQueue takes no argument: TypeError, before _rescan and before any  *)
(* field of the new object is set.                                         *)
(***************************************************************************)
DQConstruct ==
    /\ ret' = Ret("DeliveryQueue", 0, "TypeError", None)
    /\ UNCHANGED <<dir, cleaning, n_entries, clock, erasers, cwdIsDir, collided, others>>

NextRestart ==
    \/ \E h \in Handles, r \in 0..MaxRetries, t \in DQTimes :
          NoClobber(h) /\ DQQueueMessage(h, r, t)
    \/ \E h \in pending : DeliverySucceeded(h)
    \/ \E h \in pending, retryAt \in {None} \cup {<<t>> : t \in DQTimes} :
          DeliveryFailed(h, retryAt)
    \/ DQConstruct

SpecRestart == InitSched /\ [][NextRestart]_vars

(***************************************************************************)
(* Claims about the base Queue.                                            *)
(***************************************************************************)
FilesOf(h) == {t \in Tags : HasFile(dir, t, h)}
AtMostOneFile == \A h \in Handles : Cardinality(FilesOf(h)) <= 1

\* C1 (as stated): in every reachable state, also when a freshly generated
\* handle equals one already in use, each handle has at most one file among
\* inp_<handle>, msg_<handle> and rmv_<handle>.
C1_AtMostOneFileAlways == AtMostOneFile

\* C1 (amended): as long as no generated handle has repeated the handle of
\* an existing msg_ or rmv_ file, each handle has at most one file among
\* inp_<handle>, msg_<handle> and rmv_<handle>; a handle that repeats the
\* handle of an existing inp_ file is refused by the exclusive create.
C1_AtMostOneFileNoClobber == (~collided) => AtMostOneFile

C1_Witness ==
    /\ ~collided
    /\ ret.op = "cleanQueue"
    /\ HandlesOf(dir, "msg") # {}
    /\ HandlesOf(dir, "rmv") # {}

\* C2: the cached entry count, whenever it is non-negative, equals the
\* number of msg_ files, so count() and count(recount=1) agree.
C2_CountConsistent ==
    /\ n_entries >= 0 => n_entries = Cardinality(HandlesOf(dir, "msg"))
    /\ CountResult(n_entries, dir, FALSE) = CountResult(n_entries, dir, TRUE)

C2_Witness ==
    /\ n_entries >= 1
    /\ ret.exc = "ENOENT"
    /\ HandlesOf(dir, "rmv") # {}

\* C3: a message is visible exactly between its commit and its removal.
\* finishMessage(f, h) makes h a member of getAllMessages, raises count() by
\* one and makes messageContents(h) the bytes written; a handle in inp state
\* is not in getAllMessages; abortMessage(f, h) leaves h out of
\* getAllMessages and count() unchanged; removeMessage(h) takes h out.
C3_Step ==
    \A h \in Handles :
        /\ (HasFile(dir, "inp", h) /\ ret'.op = "finishMessage" /\ FinishMessage(h)) =>
              /\ h \in GetAllMessages(dir')
              /\ MessageContents(dir', h) = dir[FileName("inp", h)].content
              /\ CountResult(n_entries', dir', FALSE)
                    = CountResult(n_entries, dir, FALSE) + 1
        /\ (HasFile(dir, "inp", h) /\ ret'.op = "abortMessage" /\ AbortMessage(h)) =>
              /\ h \notin GetAllMessages(dir')
              /\ CountResult(n_entries', dir', FALSE)
                    = CountResult(n_entries, dir, FALSE)
        /\ (HasFile(dir, "msg", h) /\ ret'.op = "removeMessage" /\ RemoveMessage(h)) =>
              /\ h \notin GetAllMessages(dir')
              /\ CountResult(n_entries', dir', FALSE)
                    = CountResult(n_entries, dir, FALSE) - 1
C3_InputInvisible ==
    \A h \in Handles : HasFile(dir, "inp", h) => h \notin GetAllMessages(dir)
C3_VisibleBetweenCommitAndRemoval == [](C3_InputInvisible) /\ [][C3_Step]_vars

C3_Witness ==
    /\ ret.op = "finishMessage"
    /\ ret.exc = Ok
    /\ HasFile(dir, "msg", ret.h)
    /\ MessageContents(dir, ret.h) # <<>>
    /\ n_entries >= 1
    /\ HandlesOf(dir, "inp") # {}

\* C4: creating a message under a handle whose inp_<handle> file exists
\* fails with an error and leaves the existing file, the directory and the
\* cached count unchanged.
C4_Step ==
    \A h \in Handles :
        (HasFile(dir, "inp", h)
            /\ ret'.op \in {"openNewMessage", "queueMessage", "raised"}
            /\ (OpenNewMessage(h) \/ \E c \in Contents : QueueMessage(h, c))) =>
                /\ ret'.exc = "EEXIST"
                /\ dir' = dir
                /\ n_entries' = n_entries
C4_ExclusiveCreate == [][C4_Step]_vars

C4_Witness ==
    /\ ret.exc = "EEXIST"
    /\ \E h \in Handles :
          HasFile(dir, "inp", h) /\ dir[FileName("inp", h)].content # <<>>

\* C9: with a sentinel whose mtime is more than CLEAN_TIMEOUT before the
\* current time, cleanQueue does not report a clean in progress: it takes
\* the sentinel again, performs the pass and returns 0.
SentinelStale == cleaning # NoFile /\ Now - cleaning > CLEAN_TIMEOUT
SentinelFresh == cleaning # NoFile /\ Now - cleaning <= CLEAN_TIMEOUT

C9_Step ==
    (SentinelStale /\ ~StatRaises(dir, cwdIsDir)
        /\ ret'.op = "cleanQueue" /\ CleanQueue) =>
        /\ ret'.exc = Ok
        /\ ret'.val = 0
        /\ cleaning' = Now
C9_StaleSentinelProceeds == [][C9_Step]_vars

\* C10: with a sentinel at most CLEAN_TIMEOUT old, cleanQueue returns 1
\* without raising and changes nothing: no file is renamed, no erase batch
\* is started, the sentinel and the cached count are unchanged.
C10_Step ==
    (SentinelFresh /\ ret'.op = "cleanQueue" /\ CleanQueue) =>
        /\ ret'.exc = Ok
        /\ ret'.val = 1
        /\ dir' = dir
        /\ erasers' = erasers
        /\ cleaning' = cleaning
        /\ n_entries' = n_entries
C10_FreshSentinelNoOp == [][C10_Step]_vars

C10_Witness ==
    /\ ret.op = "cleanQueue"
    /\ ret.exc = Ok
    /\ ret.val = 1
    /\ SentinelFresh
    /\ HandlesOf(dir, "rmv") # {}

(***************************************************************************)
(* Claims about pickRandom and pickMessages.                               *)
(***************************************************************************)
\* C7: for every pool size n, pickMessages returns c handles with
\* 0 <= c <= floor(0.3 * n); when n >= 5 at least 5 messages stay in the
\* pool; when n < 5 it returns the empty list.
C7_MixRatioBound ==
    ret.op = "pickMessages" =>
        LET n == Cardinality(GetAllMessages(dir))
            c == Len(ret.val)
        IN  /\ 0 <= c
            /\ c <= (3 * n) \div 10
            /\ n >= 5 => n - c >= 5
            /\ n < 5 => c = 0

\* C8: pickRandom(k) with k <= n returns exactly k pairwise distinct
\* handles of msg_ files; pickRandom(k) with k >= n and pickRandom() return
\* every msg handle exactly once.
C8_PickRandomSample ==
    ret.op = "pickRandom" =>
        LET msgs == GetAllMessages(dir)
            n == Cardinality(msgs)
            r == ret.val
            k == ret.arg
        IN  /\ (k # None /\ k[1] <= n) =>
                  (Len(r) = k[1] /\ Distinct(r) /\ Range(r) \subseteq msgs)
            /\ (k = None \/ k[1] >= n) =>
                  (Len(r) = n /\ Distinct(r) /\ Range(r) = msgs)

C8_Witness ==
    /\ ret.op = "pickRandom"
    /\ ret.arg = <<2>>
    /\ Cardinality(GetAllMessages(dir)) = 3
    /\ HandlesOf(dir, "rmv") # {}
    /\ ret.val # SubSeq(Messages(dir, lsorder), 1, 2)

(***************************************************************************)
(* Claims about the DeliveryQueue.                                         *)
(***************************************************************************)
\* C5: for a pending message h with retry count r, deliveryFailed(h,
\* retryAt=T) leaves exactly one message for that body: its record has
\* retries r+1 and readyAt T, it is in sendable at time T, and h has no msg
\* file and is in neither sendable nor pending.
C5_Step ==
    \A h \in Handles, T \in DQTimes :
        (DeliveryFailed(h, <<T>>) /\ h \in pending /\ HasFile(dir, "msg", h)) =>
            LET old == dir[FileName("msg", h)].content
                same == {g \in GetAllMessages(dir') :
                            Body(dir'[FileName("msg", g)].content) = Body(old)}
            IN  /\ ~HasFile(dir', "msg", h)
                /\ h \notin pending'
                /\ h \notin SendableHandles(sendableAt')
                /\ Cardinality(same) = 1
                /\ \A g \in same :
                      /\ dir'[FileName("msg", g)].content
                            = <<Retries(old) + 1, T, Addr(old), Body(old)>>
                      /\ <<T, g>> \in Range(sendableAt')
C5_DeliveryFailedRequeues == [][C5_Step]_vars

\* C6: sendReadyMessages at time now removes from sendable every entry with
\* readyAt <= now, adds each such handle to pending and passes all of them
\* in one deliverMessages batch; later entries stay in sendable; when
\* nothing is due no delivery call is made and no state changes.
DueHandles(q, now) == {q[i][2] : i \in {j \in 1..Len(q) : q[j][1] <= now}}

C6_Step ==
    SendReadyMessages =>
        LET due == DueHandles(sendableAt, Now)
        IN  /\ SendableHandles(sendableAt') = SendableHandles(sendableAt) \ due
            /\ pending' = pending \cup due
            /\ due # {} => ret'.val = due
            /\ due = {} => (ret'.val = None /\ dir' = dir)
C6_SendReadyPartitions == [][C6_Step]_vars

(***************************************************************************)
(* Claims about cleanQueue under several processes, about what is erased   *)
(* and about the sentinel.                                                 *)
(***************************************************************************)
\* The processes whose pass is under way, from the write of the sentinel to
\* the fork of the eraser.
ActivePasses == {p \in Procs : cq[p].pc \in {"scan", "fork"}}

\* C11: at most one cleanup pass is active at any time: no process starts a
\* pass (writes the sentinel) while the sentinel is fresh and another
\* process's pass or a background eraser is still running.
C11_Step ==
    \A p \in Procs :
        (cq[p].pc = "write" /\ cq'[p].pc = "scan") =>
            ~(SentinelFresh /\ (ActivePasses \ {p} # {} \/ erasers # {}))
C11_OneActivePass == [][C11_Step]_vars

\* C12: the only files ever unlinked are rmv_ files and inp_ files older
\* than INPUT_TIMEOUT, and only by an erase batch started by cleanQueue; no
\* batch names a msg_ file, and a message leaves msg state only through
\* removeMessage or removeAll, by a rename to rmv_.
FilesIn(d, h) == {t \in Tags : HasFile(d, t, h)}
C12_NoMsgInBatch == \A b \in erasers : \A n \in b : n[1] # "msg"
C12_Step ==
    (dir' # dir) =>
        \A h \in Handles :
            /\ (HasFile(dir, "msg", h) /\ ~HasFile(dir', "msg", h)) =>
                  /\ ret'.op \in {"removeMessage", "removeAll"}
                  /\ HasFile(dir', "rmv", h)
            /\ \A n \in DOMAIN dir :
                  (n[2] = h /\ n \notin DOMAIN dir'
                      /\ Cardinality(FilesIn(dir', h)) < Cardinality(FilesIn(dir, h))) =>
                      /\ ret'.op = "eraser"
                      /\ \E b \in erasers \ erasers' : n \in b
                      /\ \/ n[1] = "rmv"
                         \/ n[1] = "inp" /\ dir[n].mtime < Now - INPUT_TIMEOUT
C12_OnlyTrashErased == [](C12_NoMsgInBatch) /\ [][C12_Step]_vars

C12_Witness ==
    /\ ret.op \in {"cleanQueue", "removeAll"}
    /\ \E b \in erasers : \E n \in b : n[1] = "rmv" /\ n \in DOMAIN dir
    /\ HandlesOf(dir, "msg") # {}

C14_Step ==
    \A h \in Handles, T \in DQTimes :
        (h \in pending /\ HasFile(dir, "msg", h) /\ DeliveryFailed(h, <<T>>)) =>
            LET old == dir[FileName("msg", h)].content
                replacement ==
                    {g \in GetAllMessages(dir') \ {h} :
                        dir'[FileName("msg", g)].content
                            = <<Retries(old) + 1, T, Addr(old), Body(old)>>}
            IN  /\ replacement # {}
                /\ \E g \in GetAllMessages(dir') :
                      Body(dir'[FileName("msg", g)].content) = Body(old)
C14_ReplacementBeforeRemoval == [][C14_Step]_vars

\* C15: after every completed DeliveryQueue operation no handle is in both
\* sendableAt and pending, each handle is at most once in sendableAt, and
\* the handles of sendableAt are exactly the handles of the msg_ files that
\* are not in pending.
C15_SendablePendingPartition ==
    (ret.exc = Ok /\ ret.op \in {"DQ.queueMessage", "sendReadyMessages",
                                 "deliverySucceeded", "deliveryFailed"}) =>
        /\ SendableHandles(sendableAt) \cap pending = {}
        /\ Cardinality(SendableHandles(sendableAt)) = Len(sendableAt)
        /\ SendableHandles(sendableAt) = GetAllMessages(dir) \ pending

(***************************************************************************)
(* Further claims about the cleanup pass.                                  *)
(***************************************************************************)
\* C16: when cleanQueue takes the sentinel and performs a pass, every inp_
\* file older than INPUT_TIMEOUT is renamed to rmv_, and the batch handed
\* to the eraser holds the current path of every rmv_ file of the
\* directory, those that were there and those demoted in this pass.
C16_Step ==
    (ret'.op = "cleanQueue" /\ ret'.val = 0 /\ CleanQueue) =>
        /\ \A h \in StaleInputs(dir, Now) :
              HasFile(dir', "rmv", h) /\ ~HasFile(dir', "inp", h)
        /\ \E b \in erasers' :
              {FileName("rmv", h) : h \in HandlesOf(dir', "rmv")} \subseteq b
C16_BatchHoldsEveryRmv == [][C16_Step]_vars

\* C17: every cleanQueue call that writes the sentinel is followed by the
\* removal of that sentinel, also when the pass raises after the write:
\* whenever a call has written the sentinel, a child that will unlink it is
\* running (nothing else ever removes or overrides it).
C17_Step ==
    (cleaning' # cleaning /\ cleaning' # NoFile) => erasers' # {}
C17_SentinelHasRemover == [][C17_Step]_vars

(***************************************************************************)
(* Claims about construction, moveMessage and the choice of pickRandom.    *)
(***************************************************************************)
\* C18: when a DeliveryQueue is constructed on a directory, also one with
\* messages that were pending at a crash, the constructor returns an object
\* whose pending is empty and whose sendableAt holds exactly one entry
\* (retryAt of the stored record, handle) for every msg_ file, in ascending
\* order.
C18_Step ==
    DQConstruct =>
        /\ ret'.exc = Ok
        /\ pending' = {}
        /\ InOrder(sendableAt')
        /\ Len(sendableAt') = Cardinality(GetAllMessages(dir'))
        /\ Range(sendableAt') =
              {<<RetryAt(dir'[FileName("msg", h)].content), h>> :
                  h \in GetAllMessages(dir')}
C18_RescanRebuildsSchedule == [][C18_Step]_vars

\* C19: moveMessage(h, dest) commits a copy of the message's bytes in dest
\* under a new handle before it renames the source msg_h to rmv_h.  During
\* the call, and after a crash at any step of it, the message is in msg
\* state in the source, in dest or in both; when the call returns it is in
\* msg state only in dest, with the bytes the source held, and the source
\* count is one lower.
MvInSource == HasFile(dir, "msg", mv.h) /\ MessageContents(dir, mv.h) = mv.s
MvInDest ==
    HasFile(dest.dir, "msg", mv.nh) /\ MessageContents(dest.dir, mv.nh) = mv.s
C19_NeverInNeither ==
    /\ mv.pc # "idle" => (MvInSource \/ MvInDest)
    /\ mv.pc = "remove" => (MvInSource /\ MvInDest)
    /\ mv.pc \in {"create", "write", "finish"} =>
          (MvInSource /\ ~HasFile(dest.dir, "msg", mv.nh))
C19_Step ==
    /\ (mv.pc # "idle" /\ ret'.op = "crash") =>
          \/ HasFile(dir', "msg", mv.h) /\ MessageContents(dir', mv.h) = mv.s
          \/ /\ HasFile(dest'.dir, "msg", mv.nh)
             /\ MessageContents(dest'.dir, mv.nh) = mv.s
    /\ (mv.pc = "remove" /\ mv'.pc = "idle" /\ ret'.op # "crash") =>
          /\ ret'.op = "moveMessage"
          /\ ret'.val = mv.nh
          /\ ~HasFile(dir', "msg", mv.h)
          /\ HasFile(dir', "rmv", mv.h)
          /\ HasFile(dest'.dir, "msg", mv.nh)
          /\ MessageContents(dest'.dir, mv.nh) = MessageContents(dir, mv.h)
          /\ CountResult(n_entries', dir', FALSE) =
                CountResult(n_entries, dir, FALSE) - 1
C19_MoveCopiesThenRemoves == [](C19_NeverInNeither) /\ [][C19_Step]_vars
C19_Witness ==
    /\ ret.op = "moveMessage"
    /\ HasFile(dir, "rmv", ret.h)
    /\ HasFile(dest.dir, "msg", ret.val)
    /\ MessageContents(dest.dir, ret.val) # <<>>

\* C20: for every population of n msg handles and every count k <= n, each
\* ordering of each k-element subset of the population is a possible result
\* of pickRandom(k) for some outcome of the random generator; the result is
\* not fixed by the order in which the directory is listed.
OrderingsOf(S, k) ==
    {q \in [1..k -> S] : \A i, j \in 1..k : q[i] = q[j] => i = j}
C20_EveryOrderingPossible ==
    (/\ ret.op = "pickRandom"
     /\ ret.arg # None
     /\ ret.arg[1] <= Cardinality(GetAllMessages(dir))) =>
        \A r \in OrderingsOf(GetAllMessages(dir), ret.arg[1]) :
            r \in PickRandomResults(dir, lsorder, ret.arg)
====
